---- MODULE Spec2Model ----
(***************************************************************************)
(* correct_gband of GCorrectionCode.ipynb: the G-band magnitude and flux   *)
(* correction for Gaia EDR3 sources with 2-p or 6-p astrometric solutions. *)
(*                                                                         *)
(* One call of correct_gband is run statement by statement.  numpy values  *)
(* are records [kind, dtype, shape, data]: kind is "pyscalar" (a Python    *)
(* float or int), "npscalar" (numpy.float64, numpy.int64, numpy.bool_) or  *)
(* "ndarray"; data is the flat sequence of the elements.  A float is a     *)
(* record [cls, v]: a number in units of 10^-6 (every operation rounds     *)
(* down to that resolution), NaN, +Inf or -Inf.                            *)
(***************************************************************************)
EXTENDS Integers, Sequences, FiniteSets, TLC

VARIABLES pc, args, bp_rp, astrometric_params_solved, phot_g_mean_mag,
          phot_g_mean_flux, do_not_correct, bright_correct, faint_correct,
          bp_rp_c, correction_factor, gmag_corrected, gflux_corrected, outcome

vars == <<pc, args, bp_rp, astrometric_params_solved, phot_g_mean_mag,
          phot_g_mean_flux, do_not_correct, bright_correct, faint_correct,
          bp_rp_c, correction_factor, gmag_corrected, gflux_corrected, outcome>>

-----------------------------------------------------------------------------
(* Bounds of the model.                                                    *)

\* The longest array axis of a call.
MaxLen == 2

-----------------------------------------------------------------------------
(* Floating-point values.                                                  *)

\* One unit of a float: numbers are integers counting 10^-6.
Micro == 10^6

Num(v) == [cls |-> "num", v |-> v]
NaN == [cls |-> "nan", v |-> 0]
PosInf == [cls |-> "inf", v |-> 1]
NegInf == [cls |-> "inf", v |-> -1]

IsNaN(x) == x.cls = "nan"

\* -1, 0 or 1: the sign of a float that is not NaN.
Sign(x) == IF x.v > 0 THEN 1 ELSE IF x.v < 0 THEN -1 ELSE 0

\* x < y of IEEE 754: false when either side is NaN.
FLt(x, y) ==
    CASE IsNaN(x) \/ IsNaN(y) -> FALSE
      [] x.cls = y.cls -> x.v < y.v
      [] x.cls = "inf" -> x.v < 0
      [] OTHER -> y.v > 0

\* x == y of IEEE 754: false when either side is NaN.
FEq(x, y) == ~IsNaN(x) /\ ~IsNaN(y) /\ x = y

FLe(x, y) == FLt(x, y) \/ FEq(x, y)
FGt(x, y) == FLt(y, x)
FGe(x, y) == FLe(y, x)

\* floor(x * y / 10^6) of two integers, without a product beyond 32 bits.
MulMicro(x, y) ==
    LET xh == x \div 1000
        xl == x % 1000
        yh == y \div 1000
        yl == y % 1000
    IN  xh * yh + ((xh * yl + xl * yh + ((xl * yl) \div 1000)) \div 1000)

\* x * y
FMul(x, y) ==
    CASE IsNaN(x) \/ IsNaN(y) -> NaN
      [] x.cls = "num" /\ y.cls = "num" -> Num(MulMicro(x.v, y.v))
      [] Sign(x) * Sign(y) > 0 -> PosInf
      [] Sign(x) * Sign(y) < 0 -> NegInf
      [] OTHER -> NaN

\* -x
FNeg(x) == IF IsNaN(x) THEN NaN ELSE [cls |-> x.cls, v |-> 0 - x.v]

\* x + y
FAdd(x, y) ==
    CASE IsNaN(x) \/ IsNaN(y) -> NaN
      [] x.cls = "num" /\ y.cls = "num" -> Num(x.v + y.v)
      [] x.cls = "inf" /\ y.cls = "inf" -> IF x.v = y.v THEN x ELSE NaN
      [] x.cls = "inf" -> x
      [] OTHER -> y

\* x - y
FSub(x, y) == FAdd(x, FNeg(y))

\* The value of a float cast to an integer type: the fraction is dropped.
Trunc(x) ==
    IF x.cls # "num" THEN x
    ELSE IF x.v >= 0 THEN Num((x.v \div Micro) * Micro)
    ELSE Num(0 - (((0 - x.v) \div Micro) * Micro))

\* floor(r * 10^n / b) for 0 <= r < b, one decimal digit at a time.
RECURSIVE FracDigits(_, _, _)
FracDigits(r, b, n) ==
    IF n = 0 THEN 0
    ELSE ((r * 10) \div b) * 10^(n - 1) + FracDigits((r * 10) % b, b, n - 1)

\* 2 / ln(10), in units of 10^-6.
TwoInvLn10 == 868589

\* log10 of a positive number x (in units of 10^-6), in units of 10^-6,
\* rounded towards 0: ln x = 2 (z + z^3/3 + z^5/5) with z = (x - 1) / (x + 1),
\* z held in units of 10^-9.  Exact to 10^-6 for the x within 0.8 .. 1.25.
Log10Micro(x) ==
    LET m  == IF x >= Micro THEN x - Micro ELSE Micro - x
        z9 == FracDigits(m, x + Micro, 9)
        z  == z9 \div 1000
        z2 == MulMicro(z, z)
        z3 == MulMicro(z2, z)
        z5 == MulMicro(z3, z2)
        h9 == z9 + ((z3 * 1000) \div 3) + ((z5 * 1000) \div 5)
        l  == MulMicro(h9, TwoInvLn10) \div 1000
    IN  IF x >= Micro THEN l ELSE 0 - l

\* numpy.log10 of one element: -Inf at 0, NaN below 0 (a warning, no error).
FLog10(x) ==
    CASE IsNaN(x) -> NaN
      [] x.cls = "inf" -> IF x.v > 0 THEN PosInf ELSE NaN
      [] x.v < 0 -> NaN
      [] x.v = 0 -> NegInf
      [] OTHER -> Num(Log10Micro(x.v))

\* numpy.power(x, n) of one element, n >= 1.
RECURSIVE FPow(_, _)
FPow(x, n) == IF n = 1 THEN x ELSE FMul(FPow(x, n - 1), x)

\* numpy.clip of one element: minimum(maximum(x, lo), hi); NaN stays NaN.
ClipValue(x, lo, hi) ==
    IF IsNaN(x) THEN x
    ELSE IF FLt(x, lo) THEN lo
    ELSE IF FGt(x, hi) THEN hi
    ELSE x

-----------------------------------------------------------------------------
(* The constants of correct_gband, in units of 10^-6.                      *)

\* The solution type that is never corrected.
ExcludedSolution == 31
\* G = 13 and G = 16, the limits of the magnitude ranges.
GBright == 13000000
GFaint == 16000000
\* The range the colour is clipped to.
ClipLo == 250000
ClipHi == 3000000
\* The cubic for G > 16.
FaintC0 == 1005250
FaintC1 == 23230
FaintC2 == 17400
FaintC3 == 2530
\* The cubic for 13 <= G <= 16.
BrightC0 == 1008760
BrightC1 == 25400
BrightC2 == 17470
BrightC3 == 2770
\* 2.5, the factor of the magnitude scale.
Pogson == 2500000

\* The faint cubic with power(c,2) in its last term.
FaintPolySquareForCube(c) ==
    FSub(FAdd(FSub(Num(FaintC0), FMul(Num(FaintC1), c)),
              FMul(Num(FaintC2), FPow(c, 2))),
         FMul(Num(FaintC3), FPow(c, 2)))

\* 1.00525 - 0.02323*c + 0.01740*power(c,2) - 0.00253*power(c,3)
FaintPoly(c) ==
    FSub(FAdd(FSub(Num(FaintC0), FMul(Num(FaintC1), c)),
              FMul(Num(FaintC2), FPow(c, 2))),
         FMul(Num(FaintC3), FPow(c, 3)))

\* The bright cubic with its linear term added.
BrightPolyPlusLinear(c) ==
    FSub(FAdd(FAdd(Num(BrightC0), FMul(Num(BrightC1), c)),
              FMul(Num(BrightC2), FPow(c, 2))),
         FMul(Num(BrightC3), FPow(c, 3)))

\* 1.00876 - 0.02540*c + 0.01747*power(c,2) - 0.00277*power(c,3)
BrightPoly(c) ==
    FSub(FAdd(FSub(Num(BrightC0), FMul(Num(BrightC1), c)),
              FMul(Num(BrightC2), FPow(c, 2))),
         FMul(Num(BrightC3), FPow(c, 3)))

-----------------------------------------------------------------------------
(* numpy values.                                                           *)

PyScalar(dtype, v) ==
    [kind |-> "pyscalar", dtype |-> dtype, shape |-> <<>>, data |-> <<v>>]
NpScalar(dtype, v) ==
    [kind |-> "npscalar", dtype |-> dtype, shape |-> <<>>, data |-> <<v>>]
NdArray(dtype, shape, data) ==
    [kind |-> "ndarray", dtype |-> dtype, shape |-> shape, data |-> data]

\* A local variable that is not bound yet.
Unset == [kind |-> "unset", dtype |-> "none", shape |-> <<>>, data |-> <<>>]

\* The number of elements of a shape.
RECURSIVE Size(_)
Size(shape) == IF shape = <<>> THEN 1 ELSE Head(shape) * Size(Tail(shape))

\* numpy.isscalar(x): true of Python and numpy scalars, false of every
\* ndarray, the 0-dimensional ones included.
IsScalar(x) == x.kind \in {"pyscalar", "npscalar"}

\* x.shape exists for numpy values only.
HasShape(x) == x.kind \in {"npscalar", "ndarray"}

\* The result of a ufunc: a numpy scalar for 0 dimensions, else an array.
UfuncResult(dtype, shape, data) ==
    IF shape = <<>> THEN NpScalar(dtype, data[1]) ELSE NdArray(dtype, shape, data)

\* The value of element v stored with the given dtype.
Cast(dtype, v) == IF dtype = "int64" THEN Trunc(v) ELSE v

\* int64 in place of float64: the fraction is dropped.
Float64Truncated(x) ==
    IF IsScalar(x) \/ Size(x.shape) = 1
    THEN NpScalar("int64", Trunc(x.data[1]))
    ELSE NdArray("int64", x.shape, [i \in 1..Len(x.data) |-> Trunc(x.data[i])])

\* float(x) in place of numpy.float64(x): a Python float, which has no shape.
Float64AsPython(x) ==
    IF IsScalar(x) \/ Size(x.shape) = 1
    THEN PyScalar("float64", x.data[1])
    ELSE NdArray("float64", x.shape, x.data)

\* numpy.float64(x).  float64 derives from Python's float, whose constructor
\* is tried first: it takes every scalar and every array of exactly one
\* element (of any number of dimensions) and gives a scalar.  Any other
\* array is converted to an array of the same shape.
Float64(x) ==
    IF IsScalar(x) \/ Size(x.shape) = 1
    THEN NpScalar("float64", x.data[1])
    ELSE NdArray("float64", x.shape, x.data)

\* numpy.int64(x): a scalar for a scalar or a 0-dimensional array, an array
\* of the same shape for every array of one or more dimensions.
Int64(x) ==
    IF IsScalar(x) \/ x.shape = <<>>
    THEN NpScalar("int64", Trunc(x.data[1]))
    ELSE NdArray("int64", x.shape, [i \in 1..Len(x.data) |-> Trunc(x.data[i])])

\* The test of the first if statement.
AnyScalar(a, b, c, d) ==
    IsScalar(a) \/ IsScalar(b) \/ IsScalar(c) \/ IsScalar(d)

\* The numbers of elements compared in place of the shapes.
SameSize(a, b, c, d) ==
    /\ Size(a.shape) = Size(b.shape)
    /\ Size(b.shape) = Size(c.shape)
    /\ Size(c.shape) = Size(d.shape)

\* a.shape == b.shape == c.shape == d.shape
SameShape(a, b, c, d) ==
    a.shape = b.shape /\ b.shape = c.shape /\ c.shape = d.shape

\* The mask without the test of the colour.
DoNotCorrectAnyColour(c, s, g) ==
    UfuncResult("bool", g.shape,
        [i \in 1..Len(g.data) |->
            \/ FLt(g.data[i], Num(GBright))
            \/ FEq(s.data[i], Num(ExcludedSolution * Micro))])

\* The mask without the test of the solution type.
DoNotCorrectAnySolution(c, s, g) ==
    UfuncResult("bool", g.shape,
        [i \in 1..Len(g.data) |->
            IsNaN(c.data[i]) \/ FLt(g.data[i], Num(GBright))])

\* The mask with every solution type from 31 on (>= 31 for == 31).
DoNotCorrectFrom31(c, s, g) ==
    UfuncResult("bool", g.shape,
        [i \in 1..Len(g.data) |->
            \/ IsNaN(c.data[i])
            \/ FLt(g.data[i], Num(GBright))
            \/ FGe(s.data[i], Num(ExcludedSolution * Micro))])

\* isnan(bp_rp) | (phot_g_mean_mag < 13) | (astrometric_params_solved == 31)
DoNotCorrect(c, s, g) ==
    UfuncResult("bool", g.shape,
        [i \in 1..Len(g.data) |->
            \/ IsNaN(c.data[i])
            \/ FLt(g.data[i], Num(GBright))
            \/ FEq(s.data[i], Num(ExcludedSolution * Micro))])

\* The bright mask with magnitude 16 left out (< 16 for <= 16).
BrightCorrectBelow16(dnc, g) ==
    UfuncResult("bool", g.shape,
        [i \in 1..Len(g.data) |->
            /\ ~dnc.data[i]
            /\ FGe(g.data[i], Num(GBright))
            /\ FLt(g.data[i], Num(GFaint))])

\* The bright mask without its upper limit.
BrightCorrectUnbounded(dnc, g) ==
    UfuncResult("bool", g.shape,
        [i \in 1..Len(g.data) |-> ~dnc.data[i] /\ FGe(g.data[i], Num(GBright))])

\* logical_not(do_not_correct) & (phot_g_mean_mag >= 13) & (phot_g_mean_mag <= 16)
BrightCorrect(dnc, g) ==
    UfuncResult("bool", g.shape,
        [i \in 1..Len(g.data) |->
            /\ ~dnc.data[i]
            /\ FGe(g.data[i], Num(GBright))
            /\ FLe(g.data[i], Num(GFaint))])

\* The faint mask with magnitude 16 included (>= 16 for > 16).
FaintCorrectFrom16(dnc, g) ==
    UfuncResult("bool", g.shape,
        [i \in 1..Len(g.data) |-> ~dnc.data[i] /\ FGe(g.data[i], Num(GFaint))])

\* The faint mask as the negation of <= 16, which holds of NaN.
FaintCorrectNotLe16(dnc, g) ==
    UfuncResult("bool", g.shape,
        [i \in 1..Len(g.data) |-> ~dnc.data[i] /\ ~FLe(g.data[i], Num(GFaint))])

\* logical_not(do_not_correct) & (phot_g_mean_mag > 16)
FaintCorrect(dnc, g) ==
    UfuncResult("bool", g.shape,
        [i \in 1..Len(g.data) |-> ~dnc.data[i] /\ FGt(g.data[i], Num(GFaint))])

\* The colour clipped from below only.
ClipBelowOnly(c) ==
    UfuncResult("float64", c.shape,
        [i \in 1..Len(c.data) |->
            IF FLt(c.data[i], Num(ClipLo)) THEN Num(ClipLo) ELSE c.data[i]])

\* numpy.clip(bp_rp, 0.25, 3.0)
Clip(c) ==
    UfuncResult("float64", c.shape,
        [i \in 1..Len(c.data) |-> ClipValue(c.data[i], Num(ClipLo), Num(ClipHi))])

\* An array of float64 ones of the shape of the magnitude.
OnesLikeFloat64(g) ==
    NdArray("float64", g.shape, [i \in 1..Len(g.data) |-> Num(Micro)])

\* numpy.ones_like(phot_g_mean_mag): an array of the shape and of the dtype
\* of the magnitude, a 0-dimensional array for a scalar.
OnesLike(g) ==
    NdArray(g.dtype, g.shape, [i \in 1..Len(g.data) |-> Num(Micro)])

\* a[mask]: the elements of a where mask holds, in order.
RECURSIVE SelectFrom(_, _, _)
SelectFrom(data, mask, i) ==
    IF i > Len(data) THEN <<>>
    ELSE (IF mask[i] THEN <<data[i]>> ELSE <<>>) \o SelectFrom(data, mask, i + 1)

Select(a, mask) == SelectFrom(a.data, mask.data, 1)

\* a[mask] = values[0]: every element where mask holds takes the first value.
AssignMaskedFirstValue(a, mask, values) ==
    [a EXCEPT !.data =
        [i \in 1..Len(a.data) |->
            IF mask.data[i] THEN Cast(a.dtype, values[1]) ELSE a.data[i]]]

\* a[mask] = values: the k-th element where mask holds takes the k-th value,
\* cast to the dtype of a.
AssignMasked(a, mask, values) ==
    [a EXCEPT !.data =
        [i \in 1..Len(a.data) |->
            IF mask.data[i]
            THEN Cast(a.dtype,
                      values[Cardinality({j \in 1..i : mask.data[j]})])
            ELSE a.data[i]]]

\* The right-hand sides of the two masked assignments.
FaintValues(c, mask) ==
    LET sel == Select(c, mask) IN [k \in 1..Len(sel) |-> FaintPoly(sel[k])]
BrightValues(c, mask) ==
    LET sel == Select(c, mask) IN [k \in 1..Len(sel) |-> BrightPoly(sel[k])]

\* The magnitude with the logarithmic term added.
MagnitudePlus(g, f) ==
    UfuncResult("float64", g.shape,
        [i \in 1..Len(g.data) |->
            FAdd(g.data[i], FMul(Num(Pogson), FLog10(f.data[i])))])

\* phot_g_mean_mag - 2.5*log10(correction_factor)
Magnitude(g, f) ==
    UfuncResult("float64", g.shape,
        [i \in 1..Len(g.data) |->
            FSub(g.data[i], FMul(Num(Pogson), FLog10(f.data[i])))])

\* phot_g_mean_flux * correction_factor
Flux(x, f) ==
    UfuncResult("float64", x.shape,
        [i \in 1..Len(x.data) |-> FMul(x.data[i], f.data[i])])

-----------------------------------------------------------------------------
(* The calls of the model.                                                 *)

\* The colours: none, below, at and above 0.25, at and above 3.0.
Colours ==
    {NaN, Num(100000), Num(250000), Num(500000), Num(Micro),
     Num(3 * Micro), Num(3500000)}

\* The solution types: 2-parameter (3), 5-parameter (31), 6-parameter (95).
SolutionTypes == {Num(3 * Micro), Num(31 * Micro), Num(95 * Micro)}

\* The magnitudes: none, around 13, between, around 16, fainter and
\* infinite.
Magnitudes ==
    {NaN, Num(12999999), Num(13 * Micro), Num(14 * Micro), Num(16 * Micro),
     Num(16000001), Num(18 * Micro), PosInf}

\* The fluxes: none, negative, zero, positive and infinite.
Fluxes ==
    {NaN, Num(0 - Micro), Num(0), Num(10 * Micro), Num(500 * Micro),
     Num(1000 * Micro), PosInf}

\* One source: colour, solution type, magnitude and flux.
Sources == [c : Colours, s : SolutionTypes, g : Magnitudes, f : Fluxes]

\* The sources that fill the other places of an array: one that is
\* corrected and one that is not.
Fillers ==
    {[c |-> Num(500000), s |-> Num(95 * Micro), g |-> Num(18 * Micro),
      f |-> Num(10 * Micro)],
     [c |-> NaN, s |-> Num(3 * Micro), g |-> Num(12999999), f |-> Num(0)]}

\* A call with four Python scalars.
ScalarCall(r) ==
    [bp_rp |-> PyScalar("float64", r.c),
     astrometric_params_solved |-> PyScalar("int64", r.s),
     phot_g_mean_mag |-> PyScalar("float64", r.g),
     phot_g_mean_flux |-> PyScalar("float64", r.f)]

\* A call with four arrays of one shape, holding the sources rows.
ArrayCall(shape, rows) ==
    [bp_rp |-> NdArray("float64", shape, [i \in 1..Len(rows) |-> rows[i].c]),
     astrometric_params_solved |->
         NdArray("int64", shape, [i \in 1..Len(rows) |-> rows[i].s]),
     phot_g_mean_mag |->
         NdArray("float64", shape, [i \in 1..Len(rows) |-> rows[i].g]),
     phot_g_mean_flux |->
         NdArray("float64", shape, [i \in 1..Len(rows) |-> rows[i].f])]

\* The forms of one argument: a Python scalar, a numpy scalar, or an array
\* of one of the shapes (), (n,) and (1, n).
Shapes ==
    {<<>>} \cup {<<n>> : n \in 0..MaxLen} \cup {<<1, n>> : n \in 1..MaxLen}
Forms == {<<"pyscalar", <<>> >>, <<"npscalar", <<>> >>}
         \cup {<<"ndarray", sh>> : sh \in Shapes}

\* The value v in the given form.
Formed(form, dtype, v) ==
    [kind |-> form[1], dtype |-> dtype, shape |-> form[2],
     data |-> IF form[1] = "ndarray" THEN [i \in 1..Size(form[2]) |-> v] ELSE <<v>>]

\* The sources of the calls that mix the forms: one of each regime.
MixedSources ==
    {[c |-> Num(100000), s |-> Num(95 * Micro), g |-> Num(14 * Micro),
      f |-> Num(10 * Micro)],
     [c |-> Num(500000), s |-> Num(3 * Micro), g |-> Num(18 * Micro),
      f |-> Num(1000 * Micro)],
     [c |-> Num(Micro), s |-> Num(31 * Micro), g |-> Num(20 * Micro),
      f |-> Num(10 * Micro)]}

\* A call whose arguments have the forms fc, fs, fg and ff.
MixedCall(fc, fs, fg, ff, r) ==
    [bp_rp |-> Formed(fc, "float64", r.c),
     astrometric_params_solved |-> Formed(fs, "int64", r.s),
     phot_g_mean_mag |-> Formed(fg, "float64", r.g),
     phot_g_mean_flux |-> Formed(ff, "float64", r.f)]

\* The magnitudes given as integers: brighter than 13, 13, between, 16 and
\* fainter.
IntMagnitudes ==
    {Num(12 * Micro), Num(13 * Micro), Num(14 * Micro), Num(16 * Micro),
     Num(17 * Micro), Num(18 * Micro)}

\* One source with a magnitude given as an integer.
IntSources == [c : Colours, s : SolutionTypes, g : IntMagnitudes, f : Fluxes]

\* The sources that fill the other places of an array of integer
\* magnitudes: a faint one and a bright one.
IntFillers ==
    {[c |-> Num(500000), s |-> Num(95 * Micro), g |-> Num(18 * Micro),
      f |-> Num(10 * Micro)],
     [c |-> Num(3 * Micro), s |-> Num(3 * Micro), g |-> Num(14 * Micro),
      f |-> Num(1000 * Micro)]}

\* A call with four Python scalars, the magnitude a Python int.
IntScalarCall(r) ==
    [ScalarCall(r) EXCEPT !.phot_g_mean_mag = PyScalar("int64", r.g)]

\* A call with four arrays of one shape, the magnitudes an array of integers.
IntArrayCall(shape, rows) ==
    [ArrayCall(shape, rows) EXCEPT
        !.phot_g_mean_mag =
            NdArray("int64", shape, [i \in 1..Len(rows) |-> rows[i].g])]

-----------------------------------------------------------------------------
(* correct_gband, statement by statement.                                  *)

Init ==
    /\ pc = "idle"
    /\ args = [bp_rp |-> Unset, astrometric_params_solved |-> Unset,
               phot_g_mean_mag |-> Unset, phot_g_mean_flux |-> Unset]
    /\ bp_rp = Unset
    /\ astrometric_params_solved = Unset
    /\ phot_g_mean_mag = Unset
    /\ phot_g_mean_flux = Unset
    /\ do_not_correct = Unset
    /\ bright_correct = Unset
    /\ faint_correct = Unset
    /\ bp_rp_c = Unset
    /\ correction_factor = Unset
    /\ gmag_corrected = Unset
    /\ gflux_corrected = Unset
    /\ outcome = "none"

\* The function is entered with the arguments a.
Enter(a) ==
    /\ args' = a
    /\ bp_rp' = a.bp_rp
    /\ astrometric_params_solved' = a.astrometric_params_solved
    /\ phot_g_mean_mag' = a.phot_g_mean_mag
    /\ phot_g_mean_flux' = a.phot_g_mean_flux
    /\ pc' = "scalars"
    /\ UNCHANGED <<do_not_correct, bright_correct, faint_correct, bp_rp_c,
                   correction_factor, gmag_corrected, gflux_corrected, outcome>>

\* The caller passes four arguments: four scalars, four arrays of one shape
\* with any source at one place, or any combination of forms.
Call ==
    /\ pc = "idle"
    /\ \/ \E r \in Sources : Enter(ScalarCall(r))
       \/ \E r \in Sources : Enter(ArrayCall(<<>>, <<r>>))
       \/ Enter(ArrayCall(<<0>>, <<>>))
       \/ \E n \in 1..MaxLen : \E p \in 1..n : \E r \in Sources : \E q \in Fillers :
              Enter(ArrayCall(<<n>>, [i \in 1..n |-> IF i = p THEN r ELSE q]))
       \/ \E fc \in Forms, fs \in Forms, fg \in Forms, ff \in Forms :
              \E r \in MixedSources : Enter(MixedCall(fc, fs, fg, ff, r))

\* If any argument is a scalar, all four are converted.
ConvertScalars ==
    /\ pc = "scalars"
    /\ IF AnyScalar(bp_rp, astrometric_params_solved, phot_g_mean_mag,
                    phot_g_mean_flux)
       THEN /\ bp_rp' = Float64(bp_rp)
            /\ astrometric_params_solved' = Int64(astrometric_params_solved)
            /\ phot_g_mean_mag' = Float64(phot_g_mean_mag)
            /\ phot_g_mean_flux' = Float64(phot_g_mean_flux)
       ELSE UNCHANGED <<bp_rp, astrometric_params_solved, phot_g_mean_mag,
                        phot_g_mean_flux>>
    /\ pc' = "shape"
    /\ UNCHANGED <<args, do_not_correct, bright_correct, faint_correct, bp_rp_c,
                   correction_factor, gmag_corrected, gflux_corrected, outcome>>

\* The shapes are compared; a mismatch raises ValueError.
CheckShape ==
    /\ pc = "shape"
    /\ IF ~(HasShape(bp_rp) /\ HasShape(astrometric_params_solved)
            /\ HasShape(phot_g_mean_mag) /\ HasShape(phot_g_mean_flux))
       THEN pc' = "raised" /\ outcome' = "AttributeError"
       ELSE IF ~SameShape(bp_rp, astrometric_params_solved, phot_g_mean_mag,
                          phot_g_mean_flux)
       THEN pc' = "raised" /\ outcome' = "ValueError"
       ELSE pc' = "classify" /\ UNCHANGED outcome
    /\ UNCHANGED <<args, bp_rp, astrometric_params_solved, phot_g_mean_mag,
                   phot_g_mean_flux, do_not_correct, bright_correct,
                   faint_correct, bp_rp_c, correction_factor, gmag_corrected,
                   gflux_corrected>>

\* The three masks.
Classify ==
    /\ pc = "classify"
    /\ LET dnc == DoNotCorrect(bp_rp, astrometric_params_solved, phot_g_mean_mag)
       IN  /\ do_not_correct' = dnc
           /\ bright_correct' = BrightCorrect(dnc, phot_g_mean_mag)
           /\ faint_correct' = FaintCorrect(dnc, phot_g_mean_mag)
    /\ pc' = "clip"
    /\ UNCHANGED <<args, bp_rp, astrometric_params_solved, phot_g_mean_mag,
                   phot_g_mean_flux, bp_rp_c, correction_factor, gmag_corrected,
                   gflux_corrected, outcome>>

\* The colour is clipped in place (out=bp_rp): the array the caller passed is
\* overwritten when no conversion has replaced it.
ClipColourInPlace ==
    /\ pc = "clip"
    /\ bp_rp_c' = Clip(bp_rp)
    /\ bp_rp' = [bp_rp EXCEPT !.data = Clip(bp_rp).data]
    /\ args' = IF AnyScalar(args.bp_rp, args.astrometric_params_solved,
                            args.phot_g_mean_mag, args.phot_g_mean_flux)
               THEN args
               ELSE [args EXCEPT !.bp_rp.data = Clip(bp_rp).data]
    /\ pc' = "ones"
    /\ UNCHANGED <<astrometric_params_solved, phot_g_mean_mag,
                   phot_g_mean_flux, do_not_correct, bright_correct,
                   faint_correct, correction_factor, gmag_corrected,
                   gflux_corrected, outcome>>

\* The colour is clipped.
ClipColour ==
    /\ pc = "clip"
    /\ bp_rp_c' = Clip(bp_rp)
    /\ pc' = "ones"
    /\ UNCHANGED <<args, bp_rp, astrometric_params_solved, phot_g_mean_mag,
                   phot_g_mean_flux, do_not_correct, bright_correct,
                   faint_correct, correction_factor, gmag_corrected,
                   gflux_corrected, outcome>>

\* The correction factor starts as ones.
InitFactor ==
    /\ pc = "ones"
    /\ correction_factor' = OnesLike(phot_g_mean_mag)
    /\ pc' = "faint"
    /\ UNCHANGED <<args, bp_rp, astrometric_params_solved, phot_g_mean_mag,
                   phot_g_mean_flux, do_not_correct, bright_correct,
                   faint_correct, bp_rp_c, gmag_corrected, gflux_corrected,
                   outcome>>

\* The factor of the faint sources.
AssignFaint ==
    /\ pc = "faint"
    /\ correction_factor' =
           AssignMasked(correction_factor, faint_correct,
                        FaintValues(bp_rp_c, faint_correct))
    /\ pc' = "bright"
    /\ UNCHANGED <<args, bp_rp, astrometric_params_solved, phot_g_mean_mag,
                   phot_g_mean_flux, do_not_correct, bright_correct,
                   faint_correct, bp_rp_c, gmag_corrected, gflux_corrected,
                   outcome>>

\* The factor of the bright sources.
AssignBright ==
    /\ pc = "bright"
    /\ correction_factor' =
           AssignMasked(correction_factor, bright_correct,
                        BrightValues(bp_rp_c, bright_correct))
    /\ pc' = "output"
    /\ UNCHANGED <<args, bp_rp, astrometric_params_solved, phot_g_mean_mag,
                   phot_g_mean_flux, do_not_correct, bright_correct,
                   faint_correct, bp_rp_c, gmag_corrected, gflux_corrected,
                   outcome>>

\* The corrected magnitude and flux.
Correct ==
    /\ pc = "output"
    /\ gmag_corrected' = Magnitude(phot_g_mean_mag, correction_factor)
    /\ gflux_corrected' = Flux(phot_g_mean_flux, correction_factor)
    /\ pc' = "return"
    /\ UNCHANGED <<args, bp_rp, astrometric_params_solved, phot_g_mean_mag,
                   phot_g_mean_flux, do_not_correct, bright_correct,
                   faint_correct, bp_rp_c, correction_factor, outcome>>

\* The two results are returned.
Return ==
    /\ pc = "return"
    /\ outcome' = "returned"
    /\ pc' = "done"
    /\ UNCHANGED <<args, bp_rp, astrometric_params_solved, phot_g_mean_mag,
                   phot_g_mean_flux, do_not_correct, bright_correct,
                   faint_correct, bp_rp_c, correction_factor, gmag_corrected,
                   gflux_corrected>>

Next ==
    \/ Call
    \/ ConvertScalars
    \/ CheckShape
    \/ Classify
    \/ ClipColour
    \/ InitFactor
    \/ AssignFaint
    \/ AssignBright
    \/ Correct
    \/ Return

Spec == Init /\ [][Next]_vars

\* correct_gband is called with magnitudes given as integers: four scalars, a
\* 0-dimensional array, or arrays of one shape.
CallInt ==
    /\ pc = "idle"
    /\ \/ \E r \in IntSources : Enter(IntScalarCall(r))
       \/ \E r \in IntSources : Enter(IntArrayCall(<<>>, <<r>>))
       \/ \E n \in 1..MaxLen : \E p \in 1..n : \E r \in IntSources :
              \E q \in IntFillers :
                  Enter(IntArrayCall(<<n>>, [i \in 1..n |-> IF i = p THEN r ELSE q]))

\* The calls with magnitudes of either element type.
NextDtype ==
    \/ CallInt
    \/ Next

SpecDtype == Init /\ [][NextDtype]_vars

-----------------------------------------------------------------------------
(* correct_gband as one function of its arguments.                         *)

\* The four arguments after the first if statement.
Converted(a) ==
    IF AnyScalar(a.bp_rp, a.astrometric_params_solved, a.phot_g_mean_mag,
                 a.phot_g_mean_flux)
    THEN [bp_rp |-> Float64(a.bp_rp),
          astrometric_params_solved |-> Int64(a.astrometric_params_solved),
          phot_g_mean_mag |-> Float64(a.phot_g_mean_mag),
          phot_g_mean_flux |-> Float64(a.phot_g_mean_flux)]
    ELSE a

\* The correction factor of four arguments of one shape.
Factor(v) ==
    LET dnc == DoNotCorrect(v.bp_rp, v.astrometric_params_solved,
                            v.phot_g_mean_mag)
        bright == BrightCorrect(dnc, v.phot_g_mean_mag)
        faint == FaintCorrect(dnc, v.phot_g_mean_mag)
        cc == Clip(v.bp_rp)
        f0 == OnesLike(v.phot_g_mean_mag)
        f1 == AssignMasked(f0, faint, FaintValues(cc, faint))
    IN  AssignMasked(f1, bright, BrightValues(cc, bright))

\* What a call with the arguments a gives: the outcome and the two results.
CorrectGband(a) ==
    LET v == Converted(a)
        f == Factor(v)
    IN  IF ~(HasShape(v.bp_rp) /\ HasShape(v.astrometric_params_solved)
             /\ HasShape(v.phot_g_mean_mag) /\ HasShape(v.phot_g_mean_flux))
        THEN [outcome |-> "AttributeError", gmag |-> Unset, gflux |-> Unset]
        ELSE IF ~SameShape(v.bp_rp, v.astrometric_params_solved,
                           v.phot_g_mean_mag, v.phot_g_mean_flux)
        THEN [outcome |-> "ValueError", gmag |-> Unset, gflux |-> Unset]
        ELSE [outcome |-> "returned",
              gmag |-> Magnitude(v.phot_g_mean_mag, f),
              gflux |-> Flux(v.phot_g_mean_flux, f)]

\* The statements of a call compute the function.
StepsComputeFunction ==
    /\ pc \in {"done", "raised"} =>
        CorrectGband(args) =
            [outcome |-> outcome, gmag |-> gmag_corrected, gflux |-> gflux_corrected]
    /\ pc \in {"output", "return", "done"} =>
        Factor(Converted(args)) = correction_factor

-----------------------------------------------------------------------------
(* The properties of correct_gband.                                        *)

\* The elements of the call, and the inputs of element i as the caller
\* passed them.
Elements == 1..Len(phot_g_mean_mag.data)
Colour(i) == args.bp_rp.data[i]
Solution(i) == args.astrometric_params_solved.data[i]
Mag(i) == args.phot_g_mean_mag.data[i]
FluxIn(i) == args.phot_g_mean_flux.data[i]

\* The call has returned its results.
Returned == pc = "done" /\ outcome = "returned"

\* The correction factor has its final value.
FactorReady == pc \in {"output", "return", "done"}

\* a0 - a1*c + a2*c^2 - a3*c^3, the coefficients in units of 10^-6.
Cubic(a0, a1, a2, a3, c) ==
    FSub(FAdd(FSub(Num(a0), FMul(Num(a1), c)), FMul(Num(a2), FMul(c, c))),
         FMul(Num(a3), FMul(FMul(c, c), c)))

\* clamp(c, 0.25, 3.0)
Clamp(c) ==
    IF FLt(c, Num(250000)) THEN Num(250000)
    ELSE IF FGt(c, Num(3000000)) THEN Num(3000000)
    ELSE c

\* The two cubics of the correction, at the clamped colour.
BrightCubic(c) == Cubic(1008760, 25400, 17470, 2770, Clamp(c))
FaintCubic(c) == Cubic(1005250, 23230, 17400, 2530, Clamp(c))

\* Element i has no colour, or is brighter than G = 13, or has solution
\* type 31.
Excluded(i) ==
    \/ IsNaN(Colour(i))
    \/ FLt(Mag(i), Num(13 * Micro))
    \/ Solution(i) = Num(31 * Micro)

\* C1: an element whose colour is NaN, or whose magnitude is below 13, or
\* whose solution type is 31 has the correction factor 1.0, and its
\* corrected magnitude and flux are the input magnitude and flux, whatever
\* its other inputs are.
C1_ExcludedUnchanged ==
    /\ FactorReady =>
           \A i \in Elements : Excluded(i) => correction_factor.data[i] = Num(Micro)
    /\ Returned =>
           \A i \in Elements :
               Excluded(i) => /\ gmag_corrected.data[i] = Mag(i)
                              /\ gflux_corrected.data[i] = FluxIn(i)

\* A call has returned for colour 1.0, solution type 31, magnitude 20 and
\* flux 10, with the outputs equal to the inputs.
C1_Witness ==
    /\ Returned
    /\ \E i \in Elements :
           /\ Colour(i) = Num(Micro)
           /\ Solution(i) = Num(31 * Micro)
           /\ Mag(i) = Num(20 * Micro)
           /\ FluxIn(i) = Num(10 * Micro)
           /\ gmag_corrected.data[i] = Num(20 * Micro)
           /\ gflux_corrected.data[i] = Num(10 * Micro)

C3_FaintRegime ==
    FactorReady =>
        \A i \in Elements :
            (/\ ~IsNaN(Colour(i))
             /\ Solution(i) # Num(31 * Micro)
             /\ FGt(Mag(i), Num(16 * Micro)))
            => /\ correction_factor.data[i] = FaintCubic(Colour(i))
               /\ \/ correction_factor.data[i] # BrightCubic(Colour(i))
                  \/ FaintCubic(Colour(i)) = BrightCubic(Colour(i))

\* The factor is ready with an element just above magnitude 16 whose factor
\* is the faint cubic and differs from the bright cubic.
C3_Witness ==
    /\ FactorReady
    /\ \E i \in Elements :
           /\ Mag(i) = Num(16000001)
           /\ Colour(i) = Num(100000)
           /\ Solution(i) = Num(3 * Micro)
           /\ correction_factor.data[i] = FaintCubic(Num(250000))
           /\ correction_factor.data[i] # BrightCubic(Num(250000))

\* The four arguments of the call, as the caller passed them.
Arguments ==
    {args.bp_rp, args.astrometric_params_solved, args.phot_g_mean_mag,
     args.phot_g_mean_flux}

\* All four arguments are arrays.
AllArrays == \A a \in Arguments : a.kind = "ndarray"

\* All four arguments are scalars.
AllScalars == \A a \in Arguments : a.kind \in {"pyscalar", "npscalar"}

\* The four shapes are one shape.
OneShape == \A a \in Arguments : \A b \in Arguments : a.shape = b.shape

\* Nothing has been classified, clipped or computed.
NothingComputed ==
    /\ do_not_correct = Unset
    /\ bright_correct = Unset
    /\ faint_correct = Unset
    /\ bp_rp_c = Unset
    /\ correction_factor = Unset
    /\ gmag_corrected = Unset
    /\ gflux_corrected = Unset

\* The corrected magnitude of element i is its input magnitude, for a
\* magnitude that is a number; likewise for the flux, for a flux that is a
\* number other than 0 (the difference and the ratio are defined).
DeltaIsZero(i) ==
    Mag(i).cls = "num" => FSub(gmag_corrected.data[i], Mag(i)) = Num(0)
RatioIsOne(i) ==
    (FluxIn(i).cls = "num" /\ FluxIn(i) # Num(0)) =>
        gflux_corrected.data[i] = FluxIn(i)

\* C4: an element whose colour is NaN, or whose magnitude is <= 13 (13
\* included), or whose solution type is 31 is not corrected: corrected
\* minus input magnitude is 0 and corrected over input flux is 1.
C4_NotFainterThan13Unchanged ==
    Returned =>
        \A i \in Elements :
            (\/ IsNaN(Colour(i))
             \/ FLe(Mag(i), Num(13 * Micro))
             \/ Solution(i) = Num(31 * Micro))
            => DeltaIsZero(i) /\ RatioIsOne(i)

\* C5: when all four arguments are arrays whose shapes are not all the
\* same, the call raises ValueError at the shape check and returns nothing,
\* and nothing is classified, clipped or computed at any point of the call.
C5_MismatchRaisesFirst ==
    (AllArrays /\ ~OneShape) =>
        /\ pc \in {"scalars", "shape", "raised"}
        /\ pc = "raised" => outcome = "ValueError"
        /\ outcome \in {"none", "ValueError"}
        /\ NothingComputed

\* A call with arrays of lengths 2, 2, 1 and 2 has raised ValueError.
C5_Witness ==
    /\ pc = "raised"
    /\ outcome = "ValueError"
    /\ AllArrays
    /\ args.bp_rp.shape = <<2>>
    /\ args.astrometric_params_solved.shape = <<2>>
    /\ args.phot_g_mean_mag.shape = <<1>>
    /\ args.phot_g_mean_flux.shape = <<2>>

\* C6: a call with a scalar for at least one argument and an array of one
\* or more dimensions, of any length, for at least one other argument raises
\* ValueError, whichever argument is the array.
C6_ScalarWithArrayRaises ==
    (/\ \E a \in Arguments : IsScalar(a)
     /\ \E a \in Arguments : a.kind = "ndarray" /\ Len(a.shape) >= 1
     /\ pc \notin {"scalars", "shape"})
    => pc = "raised" /\ outcome = "ValueError"

\* The call with the four values of element i as Python scalars.
ScalarCallOf(i) ==
    ScalarCall([c |-> Colour(i), s |-> Solution(i), g |-> Mag(i), f |-> FluxIn(i)])

WithColour(i, c) == [args EXCEPT !.bp_rp.data[i] = c]

\* The call with the colour of element i replaced by c gives the factor and
\* the results of this call.
SameAsColour(i, c) ==
    /\ Factor(Converted(WithColour(i, c))) = correction_factor
    /\ CorrectGband(WithColour(i, c)) =
           [outcome |-> outcome, gmag |-> gmag_corrected, gflux |-> gflux_corrected]

\* C8: with the other inputs fixed, a colour >= 3.0 gives the correction
\* factor and the outputs of colour 3.0, and a colour <= 0.25 those of
\* colour 0.25; clamping a clamped colour changes nothing.
C8_ClampedColour ==
    Returned =>
        \A i \in Elements :
            /\ FGe(Colour(i), Num(3 * Micro)) => SameAsColour(i, Num(3 * Micro))
            /\ FLe(Colour(i), Num(250000)) => SameAsColour(i, Num(250000))
            /\ Clamp(bp_rp_c.data[i]) = bp_rp_c.data[i]

\* A call has returned for a corrected element of colour 3.5 and for one of
\* colour 0.1.
C8_Witness ==
    /\ Returned
    /\ \E i \in Elements :
           /\ Colour(i) \in {Num(3500000), Num(100000)}
           /\ correction_factor.data[i] # Num(Micro)
           /\ bp_rp_c.data[i] # Colour(i)
           /\ SameAsColour(i, bp_rp_c.data[i])

\* C9: the corrected magnitude of an element is NaN exactly when its input
\* magnitude is NaN, and the corrected flux is NaN exactly when its input
\* flux is NaN.
C9_NaNPreserved ==
    Returned =>
        \A i \in Elements :
            /\ IsNaN(gmag_corrected.data[i]) <=> IsNaN(Mag(i))
            /\ IsNaN(gflux_corrected.data[i]) <=> IsNaN(FluxIn(i))

\* A call has returned for an element without colour and without magnitude
\* whose flux is a number: the corrected magnitude is NaN, the flux is not.
C9_Witness ==
    /\ Returned
    /\ \E i \in Elements :
           /\ IsNaN(Colour(i))
           /\ IsNaN(Mag(i))
           /\ FluxIn(i) = Num(10 * Micro)
           /\ IsNaN(gmag_corrected.data[i])
           /\ gflux_corrected.data[i] = Num(10 * Micro)

\* C10: a call with four scalars, or with four arrays of one shape, raises
\* nothing at any statement and ends at its return statement with the two
\* results, whatever the values are.
C10_OnlyShapeMismatchFails ==
    (pc # "idle" /\ (AllScalars \/ (AllArrays /\ OneShape))) =>
        /\ pc # "raised"
        /\ outcome \in {"none", "returned"}
        /\ pc = "done" => /\ outcome = "returned"
                          /\ gmag_corrected.shape = phot_g_mean_mag.shape
                          /\ gflux_corrected.shape = phot_g_mean_mag.shape

\* A scalar call has returned for a colour above 3.0, no magnitude and a
\* negative flux.
C10_Witness ==
    /\ Returned
    /\ AllScalars
    /\ Colour(1) = Num(3500000)
    /\ IsNaN(Mag(1))
    /\ FluxIn(1) = Num(0 - Micro)

\* The float x is a number within tol of target (both in units of 10^-6).
Near(x, target, tol) ==
    x.cls = "num" /\ x.v - target <= tol /\ target - x.v <= tol

\* Element i is the source with the given colour, solution type, magnitude
\* and flux (in units of 10^-6).
IsSource(i, c, t, g, x) ==
    /\ Colour(i) = Num(c)
    /\ Solution(i) = Num(t)
    /\ Mag(i) = Num(g)
    /\ FluxIn(i) = Num(x)

\* C11 as stated: for colour 0.5, solution type 95, magnitude 18.0 and flux
\* 1000.0 the factor is 0.997566..., the corrected flux is 997.566 to three
\* decimals and the corrected magnitude 18.00266 to five.
C11_ScenarioAsStated ==
    Returned =>
        \A i \in Elements :
            IsSource(i, 500000, 95 * Micro, 18 * Micro, 1000 * Micro) =>
                /\ Near(correction_factor.data[i], 997566, 1)
                /\ Near(gflux_corrected.data[i], 997566000, 500)
                /\ Near(gmag_corrected.data[i], 18002660, 5)

\* C11, amended: for colour 0.5, solution type 95, magnitude 18.0 and flux
\* 1000.0 the factor is the faint cubic at 0.5, which is 0.99766875; the
\* corrected flux is 997.669 to three decimals and the corrected magnitude
\* 18.00253 to five.
C11_FaintScenario ==
    Returned =>
        \A i \in Elements :
            IsSource(i, 500000, 95 * Micro, 18 * Micro, 1000 * Micro) =>
                /\ faint_correct.data[i]
                /\ correction_factor.data[i] = FaintCubic(Num(500000))
                /\ Near(correction_factor.data[i], 997669, 1)
                /\ Near(gflux_corrected.data[i], 997669000, 500)
                /\ Near(gmag_corrected.data[i], 18002530, 5)

\* The scalar call with colour 0.5, solution type 95, magnitude 18.0 and
\* flux 1000.0 has returned.
C11_Witness ==
    /\ Returned
    /\ AllScalars
    /\ IsSource(1, 500000, 95 * Micro, 18 * Micro, 1000 * Micro)
    /\ gflux_corrected.data[1] # FluxIn(1)

\* C12 as stated: for colour 0.1, solution type 95, magnitude 14.0 and flux
\* 500.0 the colour is clipped to 0.25, the factor is 1.003377 to six
\* decimals, the corrected flux 501.69 to two and the corrected magnitude is
\* below 14.0.
C12_ScenarioAsStated ==
    Returned =>
        \A i \in Elements :
            IsSource(i, 100000, 95 * Micro, 14 * Micro, 500 * Micro) =>
                /\ bp_rp_c.data[i] = Num(250000)
                /\ Near(correction_factor.data[i], 1003377, 1)
                /\ Near(gflux_corrected.data[i], 501690000, 5000)
                /\ FLt(gmag_corrected.data[i], Num(14 * Micro))

\* C12, amended: for colour 0.1, solution type 95, magnitude 14.0 and flux
\* 500.0 the colour is clipped to 0.25, the factor is the bright cubic at
\* 0.25, which is 1.003459 to six decimals; the corrected flux is 501.73 to
\* two decimals and the corrected magnitude is below 14.0.
C12_BrightScenario ==
    Returned =>
        \A i \in Elements :
            IsSource(i, 100000, 95 * Micro, 14 * Micro, 500 * Micro) =>
                /\ bp_rp_c.data[i] = Num(250000)
                /\ bright_correct.data[i]
                /\ correction_factor.data[i] = BrightCubic(Num(250000))
                /\ Near(correction_factor.data[i], 1003459, 1)
                /\ Near(gflux_corrected.data[i], 501730000, 5000)
                /\ FLt(gmag_corrected.data[i], Num(14 * Micro))

\* The scalar call with colour 0.1, solution type 95, magnitude 14.0 and
\* flux 500.0 has returned.
C12_Witness ==
    /\ Returned
    /\ AllScalars
    /\ IsSource(1, 100000, 95 * Micro, 14 * Micro, 500 * Micro)
    /\ gmag_corrected.data[1] # Mag(1)

\* The outputs of element i are flux*f and magnitude - 2.5*log10(f) for the
\* factor f of the element.
FromOneFactor(i) ==
    LET f == correction_factor.data[i]
    IN  /\ gflux_corrected.data[i] = FMul(FluxIn(i), f)
        /\ gmag_corrected.data[i] =
               FSub(Mag(i), FMul(Num(2500000), FLog10(f)))

\* The magnitude of element i decreases exactly when its flux increases,
\* which is when f > 1; it increases exactly when the flux decreases, which
\* is when f < 1; both are unchanged exactly when f = 1.
OppositeDirections(i) ==
    LET f == correction_factor.data[i]
        gm == gmag_corrected.data[i]
        gx == gflux_corrected.data[i]
    IN  /\ FLt(gm, Mag(i)) <=> FGt(gx, FluxIn(i))
        /\ FGt(gx, FluxIn(i)) <=> FGt(f, Num(Micro))
        /\ FGt(gm, Mag(i)) <=> FLt(gx, FluxIn(i))
        /\ FLt(gx, FluxIn(i)) <=> FLt(f, Num(Micro))
        /\ (gm = Mag(i) /\ gx = FluxIn(i)) <=> f = Num(Micro)

WithRow(j, q) ==
    [bp_rp |-> [args.bp_rp EXCEPT !.data[j] = q.c],
     astrometric_params_solved |->
         [args.astrometric_params_solved EXCEPT !.data[j] = q.s],
     phot_g_mean_mag |-> [args.phot_g_mean_mag EXCEPT !.data[j] = q.g],
     phot_g_mean_flux |-> [args.phot_g_mean_flux EXCEPT !.data[j] = q.f]]

\* Sources to put in the other places: of no colour, of solution type 31,
\* bright and faint.
OtherRows ==
    {[c |-> NaN, s |-> Num(3 * Micro), g |-> Num(18 * Micro), f |-> Num(0)],
     [c |-> Num(3500000), s |-> Num(31 * Micro), g |-> Num(13 * Micro),
      f |-> PosInf],
     [c |-> Num(250000), s |-> Num(95 * Micro), g |-> Num(16 * Micro),
      f |-> Num(10 * Micro)],
     [c |-> Num(Micro), s |-> Num(3 * Micro), g |-> Num(18 * Micro),
      f |-> Num(1000 * Micro)]}

\* Whatever source is put in place of element j, the outputs at every other
\* element are the same: the outputs at an element are those of every call
\* of the same shape that agrees with this one at that element.
OthersUnaffectedBy(j) ==
    \A q \in OtherRows :
        LET r == CorrectGband(WithRow(j, q))
        IN  /\ r.outcome = "returned"
            /\ \A i \in Elements \ {j} :
                   /\ r.gmag.data[i] = gmag_corrected.data[i]
                   /\ r.gflux.data[i] = gflux_corrected.data[i]

\* C14: the two outputs have the shape of the inputs, two scalars for four
\* scalars and two arrays of the input shape for four arrays, and the outputs
\* at element i are a function of the inputs at element i only.
C14_ShapeAndElementwise ==
    (Returned /\ (AllScalars \/ AllArrays)) =>
        /\ gmag_corrected.shape = args.phot_g_mean_mag.shape
        /\ gflux_corrected.shape = args.phot_g_mean_mag.shape
        /\ Len(gmag_corrected.data) = Len(args.phot_g_mean_mag.data)
        /\ Len(gflux_corrected.data) = Len(args.phot_g_mean_mag.data)
        /\ AllScalars => IsScalar(gmag_corrected) /\ IsScalar(gflux_corrected)
        /\ (AllArrays /\ args.phot_g_mean_mag.shape # <<>>) =>
               /\ gmag_corrected.kind = "ndarray"
               /\ gflux_corrected.kind = "ndarray"
        /\ AllArrays => \A j \in Elements : OthersUnaffectedBy(j)

\* A returned call of four arrays of two or more elements, two of them
\* corrected in the same regime by different factors.
C14_Witness ==
    /\ Returned
    /\ AllArrays
    /\ \E i \in Elements : \E j \in Elements \ {i} :
        /\ faint_correct.data[i] /\ faint_correct.data[j]
        /\ correction_factor.data[i] # correction_factor.data[j]
        /\ gflux_corrected.data[i] # FluxIn(i)

\* C15: a call has no side effects.  No statement of the call changes the
\* four inputs of the caller, whether the call returns or raises, and the
\* result of the call is what a call with the inputs as they are afterwards
\* gives: repeating the call gives the same result.
C15_NoSideEffects ==
    [][/\ pc # "idle" => args' = args
       /\ pc' \in {"done", "raised"} =>
              CorrectGband(args') =
                  [outcome |-> outcome', gmag |-> gmag_corrected',
                   gflux |-> gflux_corrected']]_vars

\* A returned call of four arrays whose clipped colours differ from the
\* colours of the caller, which are as they were passed.
C15_Witness ==
    /\ Returned
    /\ AllArrays
    /\ Elements # {}
    /\ args.bp_rp = bp_rp
    /\ bp_rp_c.data # args.bp_rp.data
    /\ gflux_corrected.data # args.phot_g_mean_flux.data

\* The three masks have their values.
Classified ==
    pc \in {"clip", "ones", "faint", "bright", "output", "return", "done"}

\* The classes that hold of element i.
ClassesOf(i) ==
    {k \in {"doNotCorrect", "brightRegime", "faintRegime"} :
        \/ k = "doNotCorrect" /\ do_not_correct.data[i]
        \/ k = "brightRegime" /\ bright_correct.data[i]
        \/ k = "faintRegime" /\ faint_correct.data[i]}

\* C16 as stated: of every element exactly one of doNotCorrect, brightRegime
\* and faintRegime holds, whatever its colour, solution type and magnitude,
\* NaN included.
C16_ExactlyOneClass ==
    Classified => \A i \in Elements : Cardinality(ClassesOf(i)) = 1

\* C16, amended: of every element at most one of doNotCorrect, brightRegime
\* and faintRegime holds; none holds exactly when the magnitude is NaN while
\* the colour is not NaN and the solution type is not 31, and exactly one
\* holds of every other element, the magnitudes 13 and 16 being in the
\* bright regime.
C16_AtMostOneClass ==
    Classified =>
        \A i \in Elements :
            /\ Cardinality(ClassesOf(i)) <= 1
            /\ ClassesOf(i) = {} <=>
                   /\ IsNaN(Mag(i))
                   /\ ~IsNaN(Colour(i))
                   /\ Solution(i) # Num(31 * Micro)
            /\ (~Excluded(i) /\ Mag(i) \in {Num(13 * Micro), Num(16 * Micro)})
                   => ClassesOf(i) = {"brightRegime"}

\* A classified call with an element of NaN magnitude that is in no class
\* and an element that is in the faint regime only.
C16_Witness ==
    /\ Classified
    /\ \E i \in Elements : ClassesOf(i) = {} /\ IsNaN(Mag(i))
    /\ \E i \in Elements : ClassesOf(i) = {"faintRegime"}

\* C17 as stated: the factor of every element is strictly positive, and is
\* exactly 1.0 of an element in neither regime, for every colour and every
\* element type of the magnitude.
C17_FactorPositive ==
    FactorReady =>
        \A i \in Elements :
            /\ FGt(correction_factor.data[i], Num(0))
            /\ (~bright_correct.data[i] /\ ~faint_correct.data[i]) =>
                   correction_factor.data[i] = Num(Micro)

\* The magnitudes of the call are an array of integers.
IntegerMagnitudes ==
    /\ args.phot_g_mean_mag.kind = "ndarray"
    /\ args.phot_g_mean_mag.dtype = "int64"

\* The scalar call with the inputs of element i.
ScalarPathOf(i) ==
    CorrectGband(IntScalarCall(
        [c |-> Colour(i), s |-> Solution(i), g |-> Mag(i), f |-> FluxIn(i)]))

\* C20: with an array of integer magnitudes the factor is an array of
\* integers, in which the value of each cubic is stored truncated; the faint
\* factor at colour 0.5, which is below 1, is stored as 0 and the corrected
\* flux of a finite flux is then 0, whereas the scalar call with the same
\* inputs multiplies the flux by the cubic as it is.
C20_IntegerFactorTruncated ==
    (FactorReady /\ IntegerMagnitudes) =>
        /\ correction_factor.dtype = "int64"
        /\ \A i \in Elements :
            /\ faint_correct.data[i] =>
                   correction_factor.data[i] = Trunc(FaintCubic(Colour(i)))
            /\ bright_correct.data[i] =>
                   correction_factor.data[i] = Trunc(BrightCubic(Colour(i)))
            /\ (faint_correct.data[i] /\ Colour(i) = Num(500000)) =>
                   /\ correction_factor.data[i] = Num(0)
                   /\ (Returned /\ FluxIn(i).cls = "num") =>
                          gflux_corrected.data[i] = Num(0)
                   /\ ScalarPathOf(i).outcome = "returned"
                   /\ ScalarPathOf(i).gflux.data[1] =
                          FMul(FluxIn(i), FaintCubic(Num(500000)))

\* A returned call with an array of integer magnitudes and a faint element
\* of colour 0.5 and flux 10 whose corrected flux is 0, and is 9.97669 in
\* the scalar call.
C20_Witness ==
    /\ Returned
    /\ IntegerMagnitudes
    /\ \E i \in Elements :
        /\ faint_correct.data[i]
        /\ Colour(i) = Num(500000)
        /\ FluxIn(i) = Num(10 * Micro)
        /\ gflux_corrected.data[i] = Num(0)
        /\ Near(ScalarPathOf(i).gflux.data[1], 9976690, 10)

\* The arguments of the call with the solution type t at element i.
WithSolution(i, t) == [args EXCEPT !.astrometric_params_solved.data[i] = t]

\* Solution types other than 31, below and above it.
OtherSolutions ==
    {Num(3 * Micro), Num(30 * Micro), Num(32 * Micro), Num(95 * Micro)}

\* C18: the solution type acts through its equality with 31 only: an element
\* whose solution type is not 31 has the outputs it has with any other
\* solution type that is not 31, its colour, magnitude and flux being the
\* same.
C18_SolutionOnlyThrough31 ==
    Returned =>
        \A i \in Elements :
            Solution(i) # Num(31 * Micro) =>
                \A t \in OtherSolutions :
                    CorrectGband(WithSolution(i, t)) =
                        [outcome |-> outcome, gmag |-> gmag_corrected,
                         gflux |-> gflux_corrected]

\* A returned call with a corrected element of solution type 95, which has
\* the same outputs with solution type 3 and other outputs with 31.
C18_Witness ==
    /\ Returned
    /\ \E i \in Elements :
        /\ Solution(i) = Num(95 * Micro)
        /\ gflux_corrected.data[i] # FluxIn(i)
        /\ CorrectGband(WithSolution(i, Num(3 * Micro))).gflux = gflux_corrected
        /\ CorrectGband(WithSolution(i, Num(31 * Micro))).gflux # gflux_corrected

\* C19: an element of NaN magnitude is never corrected: it is in neither
\* regime, it is in doNotCorrect only for its colour or its solution type,
\* its factor is 1.0, its corrected flux is its flux and its corrected
\* magnitude is NaN.
C19_NaNMagnitudeUncorrected ==
    FactorReady =>
        \A i \in Elements :
            IsNaN(Mag(i)) =>
                /\ ~bright_correct.data[i]
                /\ ~faint_correct.data[i]
                /\ do_not_correct.data[i] <=>
                       (IsNaN(Colour(i)) \/ Solution(i) = Num(31 * Micro))
                /\ correction_factor.data[i] = Num(Micro)
                /\ Returned =>
                       /\ gflux_corrected.data[i] = FluxIn(i)
                       /\ IsNaN(gmag_corrected.data[i])

\* A returned call with an element of NaN magnitude, colour 0.5, solution
\* type 95 and flux 1000 whose flux is returned as it is.
C19_Witness ==
    /\ Returned
    /\ \E i \in Elements :
        /\ IsNaN(Mag(i))
        /\ Colour(i) = Num(500000)
        /\ Solution(i) = Num(95 * Micro)
        /\ FluxIn(i) = Num(1000 * Micro)
        /\ ~do_not_correct.data[i]
        /\ gflux_corrected.data[i] = Num(1000 * Micro)

====
